---- MODULE Spec2Model ----
(***************************************************************************)
(* Model of lightct's calibration and reconstruction pipeline:             *)
(*   lightct/load_scan.py  (class LoadProjections)                         *)
(*   lightct/tomo_scan.py  (class TomoScan)                                *)
(*                                                                         *)
(* Conventions.                                                            *)
(*  - A frame is a sequence of rows, a row a sequence of samples; the      *)
(*    numpy array im_stack[y, x, i] is im_stack[i + 1][y + 1][x + 1].      *)
(*  - Python's None is the empty tuple <<>>, a value v that may be None    *)
(*    is <<v>>.                                                            *)
(*  - An angle is the exact rational [num |-> n, den |-> d] = n / d.       *)
(*  - A standard deviation is never computed; two of them over the same    *)
(*    number of samples N are compared through N*sum(d^2) - sum(d)^2,      *)
(*    which is N^2 times the variance.                                     *)
(*  - A local mean over blocks is kept as the block sum, i.e. the mean     *)
(*    times the block size, which is the same for every block.             *)
(*  - images is the local array of reconstruct that is handed to the       *)
(*    slice reconstruction; it is None outside that call.  image_tmp is    *)
(*    the slice returned by visualhulls_recon, None outside that call.     *)
(***************************************************************************)
EXTENDS Integers, Sequences, FiniteSets, TLC

VARIABLES cls, im_stack, height, width, p0, cor_offset, crop, num_images,
          angles, images, image_tmp, recon_data, slots, op, args, outcome

vars == <<cls, im_stack, height, width, p0, cor_offset, crop, num_images,
          angles, images, image_tmp, recon_data, slots, op, args, outcome>>

calib == <<p0, num_images, angles, cor_offset, crop>>

(***************************************************************************)
(* Bounds of the model.                                                    *)
(***************************************************************************)
MaxFrames == 4
MaxNumImages == 2
MaxP0 == 1
MaxEstNproj == 3
CentreWidth == 5
MaxShift == 1
MaxWindow == 6
MaxCor == 3
MaxDownsampleY == 2

(***************************************************************************)
(* Python values and indexing.                                             *)
(***************************************************************************)
None == <<>>

Some(v) == <<v>>

Val(o) == o[1]

Max(a, b) == IF a >= b THEN a ELSE b

Min(a, b) == IF a <= b THEN a ELSE b

Abs(a) == IF a >= 0 THEN a ELSE -a

\* numpy/Python basic slicing s[start:stop] over a length n; start and stop
\* are None or <<int>>.  The result is the pair <<lo, hi>> of the half-open
\* 0-based index range lo..hi-1 (empty when hi <= lo).
SliceLo(start, n) ==
    IF start = None THEN 0
    ELSE IF Val(start) < 0 THEN Max(n + Val(start), 0)
    ELSE Min(Val(start), n)

SliceHi(stop, n) ==
    IF stop = None THEN n
    ELSE IF Val(stop) < 0 THEN Max(n + Val(stop), 0)
    ELSE Min(Val(stop), n)

SliceLen(start, stop, n) == Max(SliceHi(stop, n) - SliceLo(start, n), 0)

\* s[start:stop] of a TLA+ sequence.
PySlice(s, start, stop) ==
    SubSeq(s, SliceLo(start, Len(s)) + 1, SliceHi(stop, Len(s)))

\* Slice every frame along x (second numpy axis) / along y (first axis).
SliceCols(frame, start, stop) ==
    [y \in 1..Len(frame) |-> PySlice(frame[y], start, stop)]

SliceRows(frame, start, stop) == PySlice(frame, start, stop)

(***************************************************************************)
(* Sums over frames.                                                       *)
(***************************************************************************)
\* The first n values of the function f as a sequence.
RECURSIVE Tabulate(_, _)
Tabulate(f, n) == IF n = 0 THEN <<>> ELSE Append(Tabulate(f, n - 1), f[n])

\* f[1] + ... + f[n].
RECURSIVE SumTo(_, _)
SumTo(f, n) == IF n = 0 THEN 0 ELSE f[n] + SumTo(f, n - 1)

SumSeq(s) == SumTo(s, Len(s))

RECURSIVE Flatten(_)
Flatten(rows) == IF rows = <<>> THEN <<>> ELSE rows[1] \o Flatten(Tail(rows))

FrameSub(f, g) ==
    Tabulate([y \in 1..Len(f) |->
                 Tabulate([x \in 1..Len(f[y]) |-> f[y][x] - g[y][x]], Len(f[y]))],
             Len(f))

\* N^2 * variance of all samples of frame f (ndarray.std() up to a monotone map).
StdKey(f) ==
    LET flat == Flatten(f)
        sq   == [k \in 1..Len(flat) |-> flat[k] * flat[k]]
    IN  Len(flat) * SumSeq(sq) - SumSeq(flat) * SumSeq(flat)

CeilDiv(a, b) == (a + b - 1) \div b

\* skimage downscale_local_mean(frame, (by, bx)): the frame is padded with
\* zeros up to a multiple of the block and every block is replaced by its
\* mean; the value kept here is the block sum (by * bx times the mean).
Downscale(frame, by, bx) ==
    LET h == Len(frame)
        w == IF h = 0 THEN 0 ELSE Len(frame[1])
        px(y, x) == IF y <= h /\ x <= w THEN frame[y][x] ELSE 0
        block(Y, X) ==
            SumTo([k \in 1..(by * bx) |->
                      px((Y - 1) * by + ((k - 1) \div bx) + 1,
                         (X - 1) * bx + ((k - 1) % bx) + 1)],
                  by * bx)
    IN  Tabulate([Y \in 1..CeilDiv(h, by) |->
                    Tabulate([X \in 1..CeilDiv(w, bx) |-> block(Y, X)],
                             CeilDiv(w, bx))],
                 CeilDiv(h, by))

(***************************************************************************)
(* Angle calibration.                                                      *)
(***************************************************************************)
\* np.linspace(0, stop, n): n evenly spaced samples, the last one is stop
\* (a single sample is the start, 0).
Linspace(stop, n) ==
    [i \in 1..n |-> IF n = 1 THEN [num |-> 0, den |-> 1]
                    ELSE [num |-> (i - 1) * stop, den |-> n - 1]]

\* np.linspace(0, stop, n, dtype=int): the samples truncated to integers.
LinspaceInt(stop, n) ==
    [i \in 1..n |-> IF n = 1 THEN [num |-> 0, den |-> 1]
                    ELSE [num |-> ((i - 1) * stop) \div (n - 1), den |-> 1]]

\* load_scan: std over all pixels of (frame i - frame p0), i = p0 .. F-1.
DiffCurveLoad(stack, p) ==
    LET ref == stack[p + 1]
    IN  Tabulate([k \in 1..(Len(stack) - p) |->
                     StdKey(FrameSub(stack[p + k], ref))],
                 Len(stack) - p)

\* tomo_scan: the same on the (3, 3) local means of the frames.
DiffCurveTomo(stack, p) ==
    LET ref == Downscale(stack[p + 1], 3, 3)
    IN  Tabulate([k \in 1..(Len(stack) - p) |->
                     LET current == Downscale(stack[p + k], 3, 3)
                     IN  StdKey(FrameSub(current, ref))],
                 Len(stack) - p)

\* data.take(i, mode='clip') on a 0-based index.
TakeClip(curve, i) == curve[Min(Max(i, 0), Len(curve) - 1) + 1]

\* scipy.signal.argrelmin(curve, order=order)[0]: the 0-based indices, in
\* increasing order, that are strictly below both neighbours at every
\* shift 1..order (indices past an end are clipped to that end).
IsRelMin_LessEqual(curve, i, order) ==
    \A s \in 1..order :
        /\ TakeClip(curve, i) <= TakeClip(curve, i + s)
        /\ TakeClip(curve, i) <= TakeClip(curve, i - s)

IsRelMin(curve, i, order) ==
    \A s \in 1..order :
        /\ TakeClip(curve, i) < TakeClip(curve, i + s)
        /\ TakeClip(curve, i) < TakeClip(curve, i - s)

Argrelmin(curve, order) ==
    {i \in 0..(Len(curve) - 1) : IsRelMin(curve, i, order)}

SetMin(S) == CHOOSE m \in S : \A n \in S : m <= n

AutoAnglesResult_NoPlusOne(curve, order) ==
    IF order < 1 THEN [outcome |-> "ValueError", set |-> FALSE, n |-> 0]
    ELSE LET minimas == Argrelmin(curve, order)
         IN  IF minimas = {}
             THEN [outcome |-> "IndexError", set |-> FALSE, n |-> 0]
             ELSE [outcome |-> "ok", set |-> TRUE, n |-> SetMin(minimas)]

\* Effect of auto_set_angles once the difference curve is known: the
\* outcome and, on success, the new num_images (first minimum + 1).
AutoAnglesResult(curve, order) ==
    IF order < 1 THEN [outcome |-> "ValueError", set |-> FALSE, n |-> 0]
    ELSE LET minimas == Argrelmin(curve, order)
         IN  IF minimas = {}
             THEN [outcome |-> "IndexError", set |-> FALSE, n |-> 0]
             ELSE [outcome |-> "ok", set |-> TRUE, n |-> SetMin(minimas) + 1]

\* LoadProjections.set_angles(num_images, ang_range, p0) of load_scan.
set_angles(n, r, p) ==
    /\ cls = "load_scan"
    /\ op' = "set_angles"
    /\ args' = [num_images |-> n, ang_range |-> r, p0 |-> p]
    /\ p0' = p
    /\ IF r = 180 \/ r = 360
       THEN /\ angles' = Some(Linspace(r, n))
            /\ num_images' = Some(n)
            /\ outcome' = "ok"
       ELSE /\ outcome' = "AssertionError"
            /\ UNCHANGED <<angles, num_images>>
    /\ UNCHANGED <<cls, im_stack, height, width, cor_offset, crop, recon_data>>
    /\ images' = None
    /\ image_tmp' = None
    /\ slots' = <<>>

\* TomoScan.manual_set_angles(interact=False, p0, num_images, ang_range).
manual_set_angles(n, r, p) ==
    /\ cls = "tomo_scan"
    /\ op' = "manual_set_angles"
    /\ args' = [num_images |-> n, ang_range |-> r, p0 |-> p]
    /\ p0' = p
    /\ IF r = 180 \/ r = 360
       THEN /\ angles' = Some(Linspace(r, n))
            /\ im_stack' = PySlice(im_stack, None, Some(n))
            /\ outcome' = "ok"
       ELSE /\ outcome' = "AssertionError"
            /\ UNCHANGED <<angles, im_stack>>
    /\ UNCHANGED <<cls, height, width, cor_offset, crop, num_images, recon_data>>
    /\ images' = None
    /\ image_tmp' = None
    /\ slots' = <<>>

\* auto_set_angles(est_nproj, p0) of load_scan and auto_set_angles(order, p0)
\* of tomo_scan; e is est_nproj for the former and order for the latter.
auto_set_angles(e, p) ==
    LET F     == Len(im_stack)
        order == IF cls = "load_scan" THEN e \div 2 ELSE e
    IN  /\ op' = "auto_set_angles"
        /\ args' = [est |-> e, order |-> order, p0 |-> p]
        /\ p0' = p
        /\ IF p > F /\ cls = "load_scan"
           THEN /\ outcome' = "ValueError"
                /\ UNCHANGED <<num_images, angles>>
           ELSE IF p >= F
           THEN /\ outcome' = "IndexError"
                /\ UNCHANGED <<num_images, angles>>
           ELSE \E curve \in {IF cls = "load_scan" THEN DiffCurveLoad(im_stack, p)
                              ELSE DiffCurveTomo(im_stack, p)} :
                \E res \in {AutoAnglesResult(curve, order)} :
                    /\ outcome' = res.outcome
                    /\ IF res.set
                       THEN /\ num_images' = Some(res.n)
                            /\ angles' = Some(LinspaceInt(360, res.n))
                       ELSE UNCHANGED <<num_images, angles>>
        /\ UNCHANGED <<cls, im_stack, height, width, cor_offset, crop, recon_data>>
        /\ images' = None
        /\ image_tmp' = None
        /\ slots' = <<>>

(***************************************************************************)
(* Centre of rotation.                                                     *)
(***************************************************************************)
\* np.fliplr(frame): every row reversed.
Fliplr(frame) ==
    [y \in 1..Len(frame) |->
        [x \in 1..Len(frame[y]) |-> frame[y][Len(frame[y]) + 1 - x]]]

FrameWidth(frame) == IF Len(frame) = 0 THEN 0 ELSE Len(frame[1])

\* The shift i tried at position idx (1-based) of the scan: load_scan walks
\* win_range[::-1], tomo_scan walks win_range.
ShiftAt(c, half_win, idx) ==
    IF c = "load_scan" THEN half_win - idx ELSE idx - 1 - half_win

\* diff[idx] of auto_centre: the std of flipped[:, half_win + i : -half_win + i]
\* minus ref, for the 2 * half_win shifts i of the scan.
CentreCurve(c, flipped, ref, half_win) ==
    Tabulate([idx \in 1..(2 * half_win) |->
                 LET i == ShiftAt(c, half_win, idx)
                     cropped == SliceCols(flipped, Some(half_win + i),
                                          Some(i - half_win))
                 IN  StdKey(FrameSub(cropped, ref))],
             2 * half_win)

\* np.argmin(curve): the 0-based position of the first smallest value.
ArgminFirst(curve) ==
    SetMin({k \in 0..(Len(curve) - 1) :
               \A j \in 1..Len(curve) : curve[k + 1] <= curve[j]})

\* The value auto_centre stores: win_range[np.argmin(diff)].  When the
\* window leaves no column (2 * half_win >= width) every difference is the
\* std of an empty array, NaN, and argmin of an all-NaN array is 0.
CentreOffset(c, flipped, ref, half_win) ==
    IF FrameWidth(ref) = 0 THEN -half_win
    ELSE ArgminFirst(CentreCurve(c, flipped, ref, half_win)) - half_win

\* LoadProjections.set_centre(cor) of load_scan.
set_centre(cor) ==
    /\ cls = "load_scan"
    /\ op' = "set_centre"
    /\ args' = [cor |-> cor]
    /\ cor_offset' = cor
    /\ outcome' = "ok"
    /\ UNCHANGED <<cls, im_stack, height, width, p0, crop, num_images, angles,
                   recon_data>>
    /\ images' = None
    /\ image_tmp' = None
    /\ slots' = <<>>

\* auto_centre(window, downsample_y) of load_scan and auto_centre(window) of
\* tomo_scan (which compares the frames without local mean).
auto_centre(window, downsample_y) ==
    LET F        == Len(im_stack)
        half_win == window \div 2
        dy       == IF cls = "load_scan" THEN downsample_y ELSE 1
    IN  /\ op' = "auto_centre"
        /\ args' = [window |-> window, half_win |-> half_win, downsample_y |-> dy]
        /\ IF p0 >= F
           THEN outcome' = "IndexError" /\ UNCHANGED cor_offset
           ELSE IF num_images = None
           THEN outcome' = "TypeError" /\ UNCHANGED cor_offset
           ELSE IF Val(num_images) \div 2 + p0 >= F
           THEN outcome' = "IndexError" /\ UNCHANGED cor_offset
           ELSE IF half_win = 0
           THEN outcome' = "ValueError" /\ UNCHANGED cor_offset
           ELSE \E ref \in {Downscale(SliceCols(im_stack[p0 + 1], Some(half_win),
                                                Some(-half_win)), dy, 1)} :
                \E flipped \in {Fliplr(Downscale(
                                   im_stack[Val(num_images) \div 2 + p0 + 1],
                                   dy, 1))} :
                    /\ cor_offset' = CentreOffset(cls, flipped, ref, half_win)
                    /\ outcome' = "ok"
        /\ UNCHANGED <<cls, im_stack, height, width, p0, crop, num_images, angles,
                       recon_data>>
        /\ images' = None
        /\ image_tmp' = None
        /\ slots' = <<>>

(***************************************************************************)
(* Construction.                                                           *)
(***************************************************************************)
\* State after __init__ on a stack of frames: LoadProjections of load_scan
\* starts with num_images = None, TomoScan with num_images = 0.
InitObj(c, stack, h, w) ==
    /\ cls = c
    /\ im_stack = stack
    /\ height = h
    /\ width = w
    /\ p0 = 0
    /\ cor_offset = 0
    /\ crop = <<None, None, None, None>>
    /\ num_images = IF c = "load_scan" THEN None ELSE Some(0)
    /\ angles = None
    /\ images = None
    /\ image_tmp = None
    /\ slots = <<>>
    /\ recon_data = None
    /\ op = "__init__"
    /\ args = <<>>
    /\ outcome = "ok"

Classes == {"load_scan", "tomo_scan"}

\* All sequences over S of length lo..hi.
SeqsOf(S, lo, hi) == UNION {[1..n -> S] : n \in lo..hi}

(***************************************************************************)
(* Specification of angle calibration: stacks of 1 x 4 frames that differ  *)
(* in their two outer columns.                                             *)
(***************************************************************************)
AngleFrames == {<< <<a, 0, 0, b>> >> : a \in 0..1, b \in 0..1} \ {<< <<0, 0, 0, 1>> >>}

AngRanges == {90, 180, 360}

InitAngle ==
    \E c \in Classes : \E stack \in SeqsOf(AngleFrames, 1, MaxFrames) :
        InitObj(c, stack, 1, 4)

NextAngle ==
    \/ \E n \in 1..MaxNumImages, r \in AngRanges, p \in 0..MaxP0 :
          set_angles(n, r, p)
    \/ \E n \in 1..MaxNumImages, r \in AngRanges, p \in 0..MaxP0 :
          manual_set_angles(n, r, p)
    \/ \E e \in 1..MaxEstNproj, p \in 0..MaxP0 : auto_set_angles(e, p)

SpecAngle == InitAngle /\ [][NextAngle]_vars

\* Automatic angle calibration alone, on the same stacks.
NextAuto == \E e \in 1..MaxEstNproj, p \in 0..MaxP0 : auto_set_angles(e, p)

SpecAuto == InitAngle /\ [][NextAuto]_vars

(***************************************************************************)
(* Properties of angle calibration.                                        *)
(***************************************************************************)
ManualOps == {"set_angles", "manual_set_angles"}

AngleOps == ManualOps \cup {"auto_set_angles"}

\* C1: a manual angle calibration whose ang_range is neither 180 nor 360
\* ends in an error and leaves p0, num_images, angles, cor_offset, crop and
\* the frame stack as they were before the call.
C1_InvalidRangeLeavesState ==
    [][(op' \in ManualOps /\ args'.ang_range \notin {180, 360})
         => (outcome' # "ok" /\ UNCHANGED <<calib, im_stack>>)]_vars

\* C2: after a successful angle calibration len(angles) = num_images,
\* angles[0] = 0 and angles[-1] is the requested range (manual) or 360
\* (automatic).  Stated for the calls that ask for at least two images
\* (a single sample of linspace is its start, 0).
C2_AngleSequenceInvariant ==
    (/\ op \in AngleOps
     /\ outcome = "ok"
     /\ op \in ManualOps => args.num_images >= 2) =>
        /\ num_images # None
        /\ angles # None
        /\ Len(Val(angles)) = Val(num_images)
        /\ Len(Val(angles)) >= 1
        /\ Val(angles)[1].num = 0
        /\ LET last == Val(angles)[Len(Val(angles))]
               want == IF op \in ManualOps THEN args.ang_range ELSE 360
           IN  last.num = want * last.den

\* The frame as auto_set_angles compares it: raw in load_scan, its (3, 3)
\* local mean in tomo_scan.
Compared(f) == IF cls = "load_scan" THEN f ELSE Downscale(f, 3, 3)

\* f and g differ by the same amount at every sample.
SameUpToConstant(f, g) ==
    \A y1, y2 \in 1..Len(f) : \A x1 \in 1..Len(f[y1]), x2 \in 1..Len(f[y2]) :
        f[y1][x1] - g[y1][x1] = f[y2][x2] - g[y2][x2]

\* The stack holds frame p0 + P and, from p0 on, exactly the frames at
\* p0 + P*k are identical to frame p0.
Periodic(P) ==
    /\ p0 + P < Len(im_stack)
    /\ \A i \in p0..(Len(im_stack) - 1) :
          (im_stack[i + 1] = im_stack[p0 + 1]) <=> ((i - p0) % P = 0)

\* The same, and no other frame differs from frame p0 by a constant only,
\* and the stack goes on for at least one frame after p0 + P.
StrictlyPeriodic(P) ==
    /\ p0 + P + 1 < Len(im_stack)
    /\ \A i \in p0..(Len(im_stack) - 1) :
          SameUpToConstant(Compared(im_stack[i + 1]), Compared(im_stack[p0 + 1]))
             <=> ((i - p0) % P = 0)

\* est_nproj / 2 <= P; tomo_scan is given the half directly, as order.
EstHalfAtMost(P) ==
    IF cls = "load_scan" THEN args.est <= 2 * P ELSE args.order <= P

\* C3 as stated: on a perfectly periodic stack of period P auto_set_angles
\* sets num_images to P whenever est_nproj / 2 <= P.  Stated for the calls
\* the code serves best: a search order of at least 1 and below P, on a
\* stack that goes on after frame p0 + P.
C3_PeriodIsNumImages ==
    \A P \in 2..MaxFrames :
        (/\ op = "auto_set_angles"
         /\ Periodic(P)
         /\ p0 + P + 1 < Len(im_stack)
         /\ args.order >= 1
         /\ args.order < P
         /\ EstHalfAtMost(P))
            => (outcome = "ok" /\ num_images = Some(P))

\* C3 amended: on a perfectly periodic stack of period P, where no other
\* frame equals frame p0 up to a constant and a frame follows p0 + P,
\* auto_set_angles sets num_images to P + 1 whenever the search order
\* (est_nproj div 2) satisfies 1 <= order, (P - 1) / 2 <= order and
\* order < P.
C3_PeriodPlusOne ==
    \A P \in 1..MaxFrames :
        (/\ op = "auto_set_angles"
         /\ StrictlyPeriodic(P)
         /\ args.order >= 1
         /\ 2 * args.order >= P - 1
         /\ args.order < P)
            => (outcome = "ok" /\ num_images = Some(P + 1))

C3_Witness ==
    /\ op = "auto_set_angles"
    /\ outcome = "ok"
    /\ \E P \in 2..MaxFrames :
          /\ StrictlyPeriodic(P)
          /\ 2 * args.order >= P - 1
          /\ args.order < P
          /\ num_images = Some(P + 1)

\* The difference curve auto_set_angles searched, from the stored state.
SearchedCurve ==
    IF cls = "load_scan" THEN DiffCurveLoad(im_stack, p0)
    ELSE DiffCurveTomo(im_stack, p0)

\* Some sample of the curve has samples on both sides and is strictly the
\* smallest among the samples at distance at most order from it.
HasQualifyingMinimum(curve, order) ==
    \E i \in 2..(Len(curve) - 1) :
        \A j \in 1..Len(curve) :
            (j # i /\ Abs(j - i) <= order) => curve[i] < curve[j]

NoMinimumCase ==
    /\ op = "auto_set_angles"
    /\ p0 < Len(im_stack)
    /\ args.order >= 1
    /\ ~HasQualifyingMinimum(SearchedCurve, args.order)

\* C7: when the difference curve has no qualifying local minimum,
\* auto_set_angles ends in an error, and an auto_set_angles that ends in an
\* error stores no num_images / angles.
C7_NoMinimumIsError ==
    /\ [](NoMinimumCase => outcome # "ok")
    /\ [][(op' = "auto_set_angles" /\ outcome' # "ok")
            => UNCHANGED <<num_images, angles>>]_vars

C7_Witness ==
    /\ NoMinimumCase
    /\ Len(SearchedCurve) >= 3
    /\ outcome = "IndexError"

(***************************************************************************)
(* Specification of centre calibration: stacks <<ref, opp, ref, opp>> of   *)
(* 1 x CentreWidth frames, ref a row with one bright interval (or none)    *)
(* and opp its mirror image about a column at most MaxShift from the       *)
(* middle.                                                                 *)
(***************************************************************************)
BlobRows(W) ==
    {[x \in 1..W |-> IF a <= x /\ x <= b THEN 1 ELSE 0] : a \in 1..W, b \in 0..W}

\* The row whose sample at 0-based column s - x is row's sample at column x
\* (0 where that column is outside the row): the mirror image of row about
\* the position s / 2.
MirrorRow(row, s) ==
    [x \in 1..Len(row) |->
        IF s - (x - 1) >= 0 /\ s - (x - 1) < Len(row)
        THEN row[s - (x - 1) + 1] ELSE 0]

CentreStacks ==
    {<< <<ref>>, <<MirrorRow(ref, CentreWidth - 1 + 2 * D)>>,
        <<ref>>, <<MirrorRow(ref, CentreWidth - 1 + 2 * D)>> >> :
        ref \in BlobRows(CentreWidth), D \in (-MaxShift)..MaxShift}

InitCentre ==
    \E c \in Classes : \E stack \in CentreStacks :
        InitObj(c, stack, 1, CentreWidth)

NextCentre ==
    \/ \E n \in 2..3 : set_angles(n, 360, 0)
    \/ \E e \in 1..2 : auto_set_angles(e, 0)
    \/ \E cor \in (-MaxCor)..MaxCor : set_centre(cor)
    \/ \E window \in 0..MaxWindow, dy \in 1..MaxDownsampleY :
          auto_centre(window, dy)

SpecCentre == InitCentre /\ [][NextCentre]_vars

(***************************************************************************)
(* Properties of centre calibration.                                       *)
(***************************************************************************)
\* The frame auto_centre takes as the 180 degree view.
OppositeIndex == Val(num_images) \div 2 + p0

\* Frame g is the mirror image of frame f about the position s / 2
\* (0-based columns x and s - x correspond), wherever both columns exist.
MirrorPair(f, g, s) ==
    \A y \in 1..Len(f) : \A x \in 0..(Len(f[y]) - 1) :
        (s - x >= 0 /\ s - x < Len(f[y])) => g[y][s - x + 1] = f[y][x + 1]

\* The difference curve of the auto_centre call that led to this state.
ScannedCurve ==
    CentreCurve(cls,
                Fliplr(Downscale(im_stack[OppositeIndex + 1],
                                 args.downsample_y, 1)),
                Downscale(SliceCols(im_stack[p0 + 1], Some(args.half_win),
                                    Some(-args.half_win)),
                          args.downsample_y, 1),
                args.half_win)

\* Exactly one shift of the scan gives the smallest difference.
OneBestShift(curve) ==
    Cardinality({k \in 1..Len(curve) :
                    \A j \in 1..Len(curve) : curve[k] <= curve[j]}) = 1

\* C4: when the reference frame and the 180 degree frame are mirror images
\* about the column D right of the middle of the frame (for D = 0 the flipped
\* 180 degree frame equals the reference frame), auto_centre stores
\* cor_offset = D.  Stated for the windows whose scan reaches the aligning
\* shift (window div 2 > 2|D|) and leaves columns to compare, and for the
\* frames that a single shift of the scan aligns best.
C4_SymmetricCentre ==
    \A D \in (-MaxShift)..MaxShift :
        (/\ op = "auto_centre"
         /\ outcome = "ok"
         /\ args.half_win > 2 * Abs(D)
         /\ 2 * args.half_win < width
         /\ MirrorPair(im_stack[p0 + 1], im_stack[OppositeIndex + 1],
                       width - 1 + 2 * D)
         /\ OneBestShift(ScannedCurve))
            => cor_offset = D

\* C8: in every reachable state |cor_offset| < width / 2.
C8_OffsetWithinHalfWidth == 2 * Abs(cor_offset) < width

(***************************************************************************)
(* Cropping and preprocessing (load_scan).                                 *)
(***************************************************************************)
MaxCropWidth == 2
MaxCropRows == 1
MaxKernel == 3
MaxDownsample == 2
ReconHeight == 2
ReconWidth == 3
ReconFrames == 4

\* The columns kept after the centre correction, as the slice <<start, stop>>.
CentreSlice ==
    IF cor_offset >= 0 THEN <<Some(cor_offset), None>>
    ELSE <<None, Some(cor_offset)>>

\* The entry of the crop tuple for the slice bound i.
CropEntry(i) == IF i = 0 THEN None ELSE Some(i)

set_crop(crop_width, top, bottom) ==
    /\ cls = "load_scan"
    /\ op' = "set_crop"
    /\ args' = [width |-> crop_width, top |-> top, bottom |-> bottom]
    /\ crop' = <<CropEntry(crop_width), CropEntry(-crop_width),
                 CropEntry(top), CropEntry(-bottom)>>
    /\ outcome' = "ok"
    /\ UNCHANGED <<cls, im_stack, height, width, p0, cor_offset, num_images,
                   angles, recon_data>>
    /\ images' = None
    /\ image_tmp' = None
    /\ slots' = <<>>

ZeroFrame(h, w) == Tabulate([y \in 1..h |-> Tabulate([x \in 1..w |-> 0], w)], h)

FrameAdd(f, g) ==
    Tabulate([y \in 1..Len(f) |->
                 Tabulate([x \in 1..Len(f[y]) |-> f[y][x] + g[y][x]], Len(f[y]))],
             Len(f))

\* frames[1] + ... + frames[n], sample by sample.
RECURSIVE FrameSumTo(_, _, _)
FrameSumTo(frames, n, zero) ==
    IF n = 0 THEN zero ELSE FrameAdd(FrameSumTo(frames, n - 1, zero), frames[n])

\* The grouping in which angular position a of rotation r is the frame
\* p + a + r * n of the stack (a, r and p counted from 0).
Averaged_Interleaved(stack, p, n, rots, zero) ==
    Tabulate([a \in 1..n |->
                 FrameSumTo([r \in 1..rots |-> stack[p + (a - 1) + (r - 1) * n + 1]],
                            rots, zero)], n)

\* np.reshape(images[:, :, p : rots * n + p], (h, w, n, rots)).mean(axis=3)
\* times rots: C order makes element [a, r] of the reshaped array the frame
\* p + a * rots + r of the stack (a, r and p counted from 0).
Averaged(stack, p, n, rots, zero) ==
    Tabulate([a \in 1..n |->
                 FrameSumTo([r \in 1..rots |-> stack[p + (a - 1) * rots + r]],
                            rots, zero)], n)

\* sorted(win)[m \div 2] for a window of m values.
Median(win, m) ==
    CHOOSE v \in {win[i] : i \in 1..m} :
        /\ Cardinality({i \in 1..m : win[i] < v}) <= m \div 2
        /\ Cardinality({i \in 1..m : win[i] <= v}) > m \div 2

\* scipy.signal.medfilt(frame, kernel_size=k), k odd: the median of the k x k
\* window around every sample, the frame being padded with zeros.
Medfilt(frame, k) ==
    LET h == Len(frame)
        w == IF h = 0 THEN 0 ELSE Len(frame[1])
        half == k \div 2
        px(y, x) == IF y >= 1 /\ y <= h /\ x >= 1 /\ x <= w THEN frame[y][x] ELSE 0
        win(y, x) == [i \in 1..(k * k) |->
                         px(y - half + ((i - 1) \div k), x - half + ((i - 1) % k))]
    IN  Tabulate([y \in 1..h |->
                     Tabulate([x \in 1..w |-> Median(win(y, x), k * k)], w)], h)

\* images[:, :, i] = ... through the views images -> im_stack[:, lo:hi, p:q]:
\* the frame of the stack with its columns lo..hi-1 overwritten.
WriteBack(frame, filtered, lo, hi) ==
    Tabulate([y \in 1..Len(frame) |->
                 Tabulate([x \in 1..Len(frame[y]) |->
                              IF x - 1 >= lo /\ x - 1 < hi
                              THEN filtered[y][x - lo] ELSE frame[y][x]],
                          Len(frame[y]))],
             Len(frame))

\* Largest k with k * k <= n.
ISqrt(n) == CHOOSE k \in 0..n : k * k <= n /\ (k + 1) * (k + 1) > n

\* w = int((recon_width**2 / 2)**0.5), kept whatever its parity.
CircleSide_AnyParity(W) == ISqrt((W * W) \div 2)

\* w = int((recon_width**2 / 2)**0.5); w = w if (w - recon_width) % 2 == 0 else w - 1
CircleSide(W) ==
    LET w == ISqrt((W * W) \div 2)
    IN  IF (w - W) % 2 = 0 THEN w ELSE w - 1

\* recon_data after the slice loop: its shape, and the row and column of
\* the allocated (rw, rw, rh) array at which it starts (0 unless crop_circle
\* sliced it to [w0:wf, w0:wf]).
Volume(rw, rh, crop_circle) ==
    IF crop_circle
    THEN LET w  == CircleSide(rw)
             w0 == (rw - w) \div 2
             wf == w0 + w
             side == SliceLen(Some(w0), Some(wf), rw)
         IN  [shape |-> <<side, side, rh>>, origin |-> SliceLo(Some(w0), rw)]
    ELSE [shape |-> <<rw, rw, rh>>, origin |-> 0]

\* The writes self.recon_data[:, :, j] = image_tmp of the slice loop, in the
\* order made: slot j from row j of the preprocessed frames.
SlotLog(rh) == Tabulate([k \in 1..rh |-> [slot |-> k - 1, row |-> k - 1]], rh)

\* reconstruct of load_scan: preprocessing (lines 239-269), the slice loop,
\* whose slices come from the external transform, and crop_circle.  images
\* holds the frames as sums with the common divisor den (den = 0: every
\* sample is 0/0 = NaN); recon_data holds the shape of the slice array.
reconstruct(downsample, do_crop, median_filter, kernel, average, crop_circle) ==
    /\ cls = "load_scan"
    /\ op' = "reconstruct"
    /\ args' = [downsample |-> downsample, crop |-> do_crop,
                median_filter |-> median_filter, kernel |-> kernel,
                average |-> average, crop_circle |-> crop_circle]
    /\ IF num_images = None
       THEN /\ outcome' = "TypeError"
            /\ images' = None
            /\ slots' = <<>>
            /\ UNCHANGED <<im_stack, recon_data>>
       ELSE
        LET cs   == CentreSlice
            F    == Len(im_stack)
            n    == Val(num_images)
            lo   == SliceLo(cs[1], width)
            hi   == SliceHi(cs[2], width)
            w1   == SliceLen(cs[1], cs[2], width)
            kept == Tabulate([i \in 1..F |-> SliceCols(im_stack[i], cs[1], cs[2])], F)
            rots == (F - p0) \div n
            sel  == IF average
                    THEN Averaged(kept, p0, n, rots, ZeroFrame(height, w1))
                    ELSE PySlice(kept, Some(p0), Some(n + p0))
            den1 == IF average THEN rots ELSE 1
            dh   == downsample[1]
            dw   == downsample[2]
            rh   == IF do_crop
                    THEN CeilDiv(SliceLen(crop[3], crop[4], height), dh)
                    ELSE height
            rw   == IF do_crop
                    THEN CeilDiv(SliceLen(crop[1], crop[2], w1), dw)
                    ELSE w1
            cropped == IF do_crop
                       THEN Tabulate([i \in 1..Len(sel) |->
                                Downscale(SliceRows(SliceCols(sel[i], crop[1], crop[2]),
                                                    crop[3], crop[4]), dh, dw)],
                                Len(sel))
                       ELSE sel
            den2 == IF do_crop THEN den1 * dh * dw ELSE den1
            filtered == Tabulate([i \in 1..Len(cropped) |-> Medfilt(cropped[i], kernel)],
                                 Len(cropped))
            aliased == ~average /\ ~do_crop
        IN  IF rh = 0 \/ rw = 0 \/ Len(sel) = 0
            THEN \* empty arrays reach the libraries, which may or may not object
                 /\ outcome' \in {"ok", "ValueError"}
                 /\ images' = [frames |-> <<>>, den |-> den2]
                 /\ recon_data' = IF outcome' = "ok"
                                  THEN Some(Volume(rw, rh, crop_circle))
                                  ELSE recon_data
                 /\ slots' = IF outcome' = "ok" THEN SlotLog(rh) ELSE <<>>
                 /\ UNCHANGED im_stack
            ELSE IF median_filter /\ kernel % 2 = 0
            THEN /\ outcome' = "ValueError"
                 /\ images' = [frames |-> cropped, den |-> den2]
                 /\ recon_data' = Some(Volume(rw, rh, FALSE))
                 /\ slots' = <<>>
                 /\ UNCHANGED im_stack
            ELSE /\ outcome' = "ok"
                 /\ images' = [frames |-> IF median_filter THEN filtered ELSE cropped,
                               den |-> den2]
                 /\ recon_data' = Some(Volume(rw, rh, crop_circle))
                 /\ slots' = SlotLog(rh)
                 /\ im_stack' =
                      IF median_filter /\ aliased
                      THEN Tabulate([i \in 1..F |->
                               IF i - 1 >= p0 /\ i - 1 < p0 + Len(sel)
                               THEN WriteBack(im_stack[i], filtered[i - p0], lo, hi)
                               ELSE im_stack[i]], F)
                      ELSE im_stack
    /\ image_tmp' = None
    /\ UNCHANGED <<cls, height, width, p0, cor_offset, crop, num_images, angles>>

\* Stacks of ReconFrames frames, each one of two ReconHeight x ReconWidth frames.
ReconPalette == {<< <<a, 2, a>>, <<a, a, 1>> >> : a \in 0..1}

ReconStacks ==
    {s \in [1..ReconFrames -> ReconPalette] : s[1][1][1] = 1 /\ s[2][1][1] = 0}

InitRecon == \E stack \in ReconStacks :
                 InitObj("load_scan", stack, ReconHeight, ReconWidth)

\* Angle and centre calibration followed by preprocessing with every option,
\* the crop region being the one set at construction.
NextRecon ==
    \/ set_angles(2, 360, 0)
    \/ \E cor \in 0..1 : set_centre(cor)
    \/ \E d \in 1..MaxDownsample, do_crop \in BOOLEAN, median_filter \in BOOLEAN,
          kernel \in 2..MaxKernel, average \in BOOLEAN :
          /\ do_crop \/ d = 1
          /\ median_filter \/ kernel = MaxKernel
          /\ reconstruct(<<d, d>>, do_crop, median_filter, kernel, average, FALSE)

SpecRecon == InitRecon /\ [][NextRecon]_vars

\* Calibration and crop requests followed by preprocessing of the crop region.
NextCrop ==
    \/ set_angles(2, 360, 0)
    \/ \E cor \in (-1)..1 : set_centre(cor)
    \/ \E cw \in 0..MaxCropWidth, top \in 0..MaxCropRows, bottom \in 0..MaxCropRows :
          set_crop(cw, top, bottom)
    \/ \E d \in 1..MaxDownsample : reconstruct(<<d, d>>, TRUE, FALSE, MaxKernel, FALSE, FALSE)

SpecCrop == InitRecon /\ [][NextCrop]_vars

(***************************************************************************)
(* Properties of cropping and preprocessing.                               *)
(***************************************************************************)
\* The width of a frame once the centre correction has been applied.
CentredWidth == SliceLen(CentreSlice[1], CentreSlice[2], width)

\* C5: a crop request that was accepted leaves a region of positive width
\* and height for reconstruct: a request with 2 * width >= frame width after
\* the centre offset, or top + bottom >= frame height, ends in an error.
C5_CropRegionNotEmpty ==
    (op = "set_crop" /\ outcome = "ok")
        => /\ SliceLen(crop[1], crop[2], CentredWidth) > 0
           /\ SliceLen(crop[3], crop[4], height) > 0
           /\ 2 * args.width < CentredWidth
           /\ args.top + args.bottom < height

\* C9: no call changes the frame stack: its frame count and every sample
\* stay as they were at construction.
C9_StackNeverChanges == [][im_stack' = im_stack]_vars

\* C10: with average = TRUE the frame submitted for angular position a is
\* the mean over the R complete rotations r of stack frame p0 + a + r * num_images
\* (stated for calls without crop and median filter, where the submitted
\* frames are the averaged frames themselves).
C10_AverageAcrossRotations ==
    (op = "reconstruct" /\ outcome = "ok" /\ args.average
        /\ ~args.crop /\ ~args.median_filter)
        => LET n    == Val(num_images)
               rots == (Len(im_stack) - p0) \div n
               kept == [i \in 1..Len(im_stack) |->
                           SliceCols(im_stack[i], CentreSlice[1], CentreSlice[2])]
           IN  /\ images.den = rots
               /\ images.frames = Averaged_Interleaved(kept, p0, n, rots,
                                      ZeroFrame(height, CentredWidth))

(***************************************************************************)
(* Visual hull reconstruction (load_scan).                                 *)
(*  - A transmission t is kept in percent; a threshold in tenths.          *)
(*  - Views are modelled at 0, 90, 180, 270 and 360 degrees, where cos and *)
(*    sin in IEEE double precision are 0 or +-1 up to the rounding of pi:  *)
(*    cos(pi/2) = 6.12e-17, sin(pi) = 1.22e-16, cos(3pi/2) = -1.84e-16,    *)
(*    sin(2pi) = -2.45e-16.  These are 1.103, 2.206, 3.309 and 4.412 times *)
(*    u = 2^-54; they are kept in thousandths of u.                        *)
(***************************************************************************)
HullWidth == 5
MaxViews == 5
MaxRadius == 1

Thresholds == {5, 10}

\* -log(t / 100 + 1e-8) > threshold / 10, i.e. t / 100 + 1e-8 < exp(-threshold / 10):
\* exp(-0.5) = 0.6065, exp(-1) = 0.3679.
IsForeground(t, threshold) == t < (IF threshold = 5 THEN 61 ELSE 37)

Transpose(sino, W, nv) ==
    Tabulate([i \in 1..nv |-> Tabulate([c \in 1..W |-> sino[c][i]], W)], nv)

\* scipy.ndimage mode='reflect' for the index one before the first.
Reflect(i) == IF i < 1 THEN 1 ELSE i

\* binarise_sino on the (views x columns) array of transmissions: the mask of
\* -log(t) > threshold, then median_filter(size=2): every sample becomes the
\* value of rank 2 (counted from 0) of the 2 x 2 window ending at it, which
\* for a mask is 1 iff at least two of the four are 1.
binarise_sino(orig_sino, threshold, W, nv) ==
    LET sino == [i \in 1..nv |->
                    [c \in 1..W |-> IF IsForeground(orig_sino[i][c], threshold)
                                    THEN 1 ELSE 0]]
    IN  Tabulate([i \in 1..nv |->
            Tabulate([c \in 1..W |->
                IF sino[Reflect(i - 1)][Reflect(c - 1)] + sino[Reflect(i - 1)][c]
                   + sino[i][Reflect(c - 1)] + sino[i][c] >= 2
                THEN 1 ELSE 0], W)], nv)

\* Half the distance, in u, from the double m (an integer, 1 <= m <= 8) to
\* the next double towards zero.
HalfUlpBelow(m) == IF m = 1 THEN 1 ELSE IF m = 2 THEN 2 ELSE IF m <= 4 THEN 4 ELSE 8

\* int(main + pert), main an integer and pert (in thousandths of u) tiny:
\* the sum rounds to main unless pert points towards zero and exceeds half
\* the distance to the next double, and then truncation loses one.
TruncSum(main, pert) ==
    IF main = 0 \/ pert = 0 \/ (main > 0) = (pert > 0) THEN main
    ELSE IF Abs(pert) > 1000 * HalfUlpBelow(Abs(main))
    THEN (IF main > 0 THEN main - 1 ELSE main + 1)
    ELSE main

Degrees == {0, 90, 180, 270, 360}

IsModelledAngle(a) == a.num % a.den = 0 /\ (a.num \div a.den) \in Degrees

\* _mapping_array(...).astype('int') at the cell (x, y):
\* int(x * cos(theta) - y * sin(theta)).
mapping_array(deg, x, y) ==
    CASE deg = 0   -> x
      [] deg = 90  -> TruncSum(-y, 1103 * x)
      [] deg = 180 -> TruncSum(-x, -2206 * y)
      [] deg = 270 -> TruncSum(y, -3309 * x)
      [] deg = 360 -> TruncSum(x, 4412 * y)

Clip(v, lo, hi) == IF v < lo THEN lo ELSE IF v > hi THEN hi ELSE v

SetMax(S) == CHOOSE v \in S : \A w \in S : w <= v

\* full += data_range // 4, without the addition.
HullBias_None(data_range) == 0

\* full += data_range // 4, rounded up instead of down.
HullBias_Ceil(data_range) == (data_range + 3) \div 4

\* full += data_range // 4.
HullBias(data_range) == data_range \div 4

\* The slice visualhulls_recon returns for the filtered mask sino (views x
\* columns) and the first n angles.
HullSlice(sino, W, n) ==
    LET centre == W \div 2
        deg(i) == angles[1][i].num \div angles[1][i].den
        mask(i, x, y) ==
            sino[i][Clip(mapping_array(deg(i), x, y) + centre, 0, W - 1) + 1]
        full == [yi \in 1..W |-> [xi \in 1..W |->
                    1 - SumTo([i \in 1..n |->
                                  1 - mask(i, (xi - 1) - centre, (yi - 1) - centre)], n)]]
        values == {full[yi][xi] : yi \in 1..W, xi \in 1..W}
        bias == HullBias(SetMax(values) - SetMin(values))
    IN  Tabulate([yi \in 1..W |->
            Tabulate([xi \in 1..W |->
                IF full[yi][xi] + bias < 1 THEN 0 ELSE full[yi][xi] + bias], W)], W)

\* visualhulls_recon(sino, threshold); sino is (columns x views).
visualhulls_recon(sino, threshold) ==
    LET W  == Len(sino)
        nv == Len(sino[1])
    IN  /\ cls = "load_scan"
        /\ num_images # None => \A i \in 1..Min(Val(num_images), nv) :
                                    IsModelledAngle(angles[1][i])
        /\ op' = "visualhulls_recon"
        /\ args' = [sino |-> sino, threshold |-> threshold]
        /\ IF num_images = None
           THEN outcome' = "TypeError" /\ image_tmp' = None
           ELSE IF Val(num_images) > nv
           THEN outcome' = "IndexError" /\ image_tmp' = None
           ELSE /\ outcome' = "ok"
                /\ image_tmp' = HullSlice(binarise_sino(Transpose(sino, W, nv),
                                                        threshold, W, nv),
                                          W, Val(num_images))
        /\ images' = None
        /\ slots' = <<>>
        /\ UNCHANGED <<cls, im_stack, height, width, p0, cor_offset, crop,
                       num_images, angles, recon_data>>

\* The sinogram (columns x views) of a centred object of radius r seen the
\* same in nv views: transmission fg within r of the centre column, bg elsewhere.
DiscSinogram(W, nv, r, fg, bg) ==
    Tabulate([c \in 1..W |->
                 Tabulate([i \in 1..nv |->
                              IF Abs((c - 1) - W \div 2) <= r THEN fg ELSE bg], nv)], W)

HullSinograms ==
    {DiscSinogram(HullWidth, nv, r, fg, bg) :
        nv \in {MaxViews - 2, MaxViews}, r \in 0..MaxRadius, fg \in {0, 50}, bg \in {70, 100}}

InitHull == InitObj("load_scan", <<ZeroFrame(1, HullWidth)>>, 1, HullWidth)

NextHull ==
    \/ \E n \in 1..MaxViews, r \in {180, 360} : set_angles(n, r, 0)
    \/ \E sino \in HullSinograms, threshold \in Thresholds :
          visualhulls_recon(sino, threshold)

SpecHull == InitHull /\ [][NextHull]_vars

(***************************************************************************)
(* Properties of the visual hull.                                          *)
(***************************************************************************)
\* The last call was a successful visualhulls_recon on a sinogram whose
\* silhouette at the call's threshold is, in every view, exactly the
\* columns within r of the centre column.
HullOfRadius(r) ==
    /\ op = "visualhulls_recon"
    /\ outcome = "ok"
    /\ \A c \in 1..Len(args.sino) : \A i \in 1..Len(args.sino[c]) :
          IsForeground(args.sino[c][i], args.threshold)
              <=> Abs((c - 1) - Len(args.sino) \div 2) <= r

\* Coordinates of the cells of the slice relative to its centre.
HullCoords == LET W == Len(image_tmp) IN (0 - W \div 2)..(W - 1 - W \div 2)

HullValue(x, y) ==
    LET W == Len(image_tmp) IN image_tmp[y + W \div 2 + 1][x + W \div 2 + 1]

\* The number of the views used that put the cell (x, y) on background.
HullPenalty(x, y) ==
    LET W  == Len(args.sino)
        nv == Len(args.sino[1])
        sino == binarise_sino(Transpose(args.sino, W, nv), args.threshold, W, nv)
    IN  Cardinality({i \in 1..Val(num_images) :
            sino[i][Clip(mapping_array(angles[1][i].num \div angles[1][i].den, x, y)
                         + W \div 2, 0, W - 1) + 1] = 0})

HullMaxPenalty == SetMax({HullPenalty(x, y) : x \in HullCoords, y \in HullCoords})

\* C6 (as stated): for a silhouette of radius r that is the same in every
\* view the slice is 1 at every cell within radius r of the centre and 0 at
\* every cell outside it, cells within one pixel of the boundary being free
\* (stated for four or more views: fewer do not enclose the object).
C6_HullIsBinary ==
    \A r \in 0..MaxRadius : (HullOfRadius(r) /\ Val(num_images) >= 4) =>
        \A x \in HullCoords, y \in HullCoords :
            /\ (r >= 1 /\ x * x + y * y <= (r - 1) * (r - 1)) \/ (x = 0 /\ y = 0)
                   => HullValue(x, y) = 1
            /\ x * x + y * y > (r + 1) * (r + 1) => HullValue(x, y) = 0

\* C6 (amended): for such a silhouette every cell within radius r of the
\* centre has the value 1 + range div 4, range being the largest number of
\* views that put any one cell on background; a cell is 0 exactly when more
\* than range div 4 views put it on background.
C6_HullInsideBiased ==
    \A r \in 0..MaxRadius : HullOfRadius(r) =>
        LET bias == HullMaxPenalty \div 4
        IN  \A x \in HullCoords, y \in HullCoords :
                /\ x * x + y * y <= r * r => HullValue(x, y) = 1 + bias
                /\ HullValue(x, y) = 0 <=> HullPenalty(x, y) > bias

\* A disc silhouette reconstructed from enough views for the bias to act:
\* the centre is 2, some cell is carved away and some cell that one view
\* puts on background is kept.
C6_Witness ==
    \E r \in 0..MaxRadius :
        /\ HullOfRadius(r)
        /\ HullValue(0, 0) = 2
        /\ \E x \in HullCoords, y \in HullCoords : HullValue(x, y) = 0
        /\ \E x \in HullCoords, y \in HullCoords :
              HullPenalty(x, y) = 1 /\ HullValue(x, y) = 1

HullMinPenalty == SetMin({HullPenalty(x, y) : x \in HullCoords, y \in HullCoords})

\* max - min of the accumulator, whose cells are 1 - HullPenalty.
HullRange == HullMaxPenalty - HullMinPenalty

HullCallOk == op = "visualhulls_recon" /\ outcome = "ok"

\* C11 (as stated): each cell accumulates 1 minus the number of views that
\* put it on background, exactly range / 4 is added, and the cell is 0 iff
\* that biased value is below 0.5 and keeps the biased value otherwise
\* (all values times 4, to stay in the integers).
C11_ExactQuarterBias ==
    HullCallOk =>
        \A x \in HullCoords, y \in HullCoords :
            LET biased4 == 4 * (1 - HullPenalty(x, y)) + HullRange
            IN  4 * HullValue(x, y) = IF biased4 < 2 THEN 0 ELSE biased4

\* C11 (amended): the same with range div 4, the quarter of the range
\* rounded down, as the amount added to every cell.
C11_FloorQuarterBias ==
    HullCallOk =>
        LET bias == HullRange \div 4
        IN  \A x \in HullCoords, y \in HullCoords :
                LET biased == 1 - HullPenalty(x, y) + bias
                IN  HullValue(x, y) = IF 2 * biased < 1 THEN 0 ELSE biased

\* A slice whose range is not a multiple of 4, with a cell carved away and
\* a cell kept.
C11_Witness ==
    /\ HullCallOk
    /\ HullRange % 4 # 0
    /\ \E x \in HullCoords, y \in HullCoords : HullValue(x, y) = 0
    /\ \E x \in HullCoords, y \in HullCoords : HullValue(x, y) >= 1

(***************************************************************************)
(* The circular crop of the slices (load_scan).                            *)
(***************************************************************************)
MaxSide == 9

\* Stacks of two ReconHeight-row frames of every width up to MaxSide.
InitCircle == \E W \in 1..MaxSide :
                  InitObj("load_scan",
                          <<ZeroFrame(ReconHeight, W), ZeroFrame(ReconHeight, W)>>,
                          ReconHeight, W)

NextCircle ==
    \/ \E n \in 1..2, r \in {180, 360} : set_angles(n, r, 0)
    \/ \E cor \in 0..1 : set_centre(cor)
    \/ \E crop_circle \in BOOLEAN :
          reconstruct(<<1, 1>>, FALSE, FALSE, MaxKernel, FALSE, crop_circle)

SpecCircle == InitCircle /\ [][NextCircle]_vars

\* w is the largest integer with 2 * w * w <= W * W and the parity of W
\* (a negative w is never the largest: -w does as well).
IsCircleSide(w, W) ==
    /\ 2 * w * w <= W * W
    /\ (W - w) % 2 = 0
    /\ \A v \in (w + 1)..W : ~(2 * v * v <= W * W /\ (W - v) % 2 = 0)

\* The last call was a successful uncropped reconstruct with crop_circle.
CircleCall == op = "reconstruct" /\ outcome = "ok" /\ args.crop_circle /\ ~args.crop

TomoCentreSlice_AsLoad ==
    IF cor_offset >= 0 THEN <<Some(cor_offset), None>>
    ELSE <<None, Some(cor_offset)>>

\* im_stack[:, -cor_offset:, ...] if cor_offset <= 0 else im_stack[:, :-cor_offset, ...]
TomoCentreSlice ==
    IF cor_offset <= 0 THEN <<Some(-cor_offset), None>>
    ELSE <<None, Some(-cor_offset)>>

\* reconstruct(downsample, pre_filter, kernel) of tomo_scan, downsample being
\* (dh, dw, 1).  recon_data is None from construction on, so the first write
\* self.recon_data[:, :, j] = imagetmp raises TypeError.
tomo_reconstruct(downsample, pre_filter, kernel) ==
    /\ cls = "tomo_scan"
    /\ op' = "reconstruct"
    /\ args' = [downsample |-> downsample, pre_filter |-> pre_filter,
                kernel |-> kernel]
    /\ LET cs   == TomoCentreSlice
           n    == Val(num_images)
           dh   == downsample[1]
           dw   == downsample[2]
           sel  == PySlice(im_stack, Some(p0), Some(n + p0))
           down == Tabulate([i \in 1..Len(sel) |->
                                Downscale(SliceCols(sel[i], cs[1], cs[2]), dh, dw)],
                            Len(sel))
           filtered == Tabulate([i \in 1..Len(down) |-> Medfilt(down[i], kernel)],
                                Len(down))
           rw   == CeilDiv(SliceLen(cs[1], cs[2], width), dw)
       IN  IF pre_filter /\ kernel % 2 = 0 /\ Len(sel) > 0
           THEN /\ outcome' = "ValueError"
                /\ images' = [frames |-> down, den |-> dh * dw]
           ELSE /\ images' = [frames |-> IF pre_filter THEN filtered ELSE down,
                              den |-> dh * dw]
                /\ IF height = 0 THEN outcome' = "ok"
                   ELSE IF rw = 0 \/ Len(sel) = 0
                   THEN \* an empty sinogram reaches the transform first
                        outcome' \in {"TypeError", "ValueError"}
                   ELSE outcome' = "TypeError"
    /\ slots' = <<>>
    /\ image_tmp' = None
    /\ UNCHANGED <<cls, im_stack, height, width, p0, cor_offset, crop, num_images,
                   angles, recon_data>>

\* Frames one column wider than CentreWidth, so that a window of 4 still
\* compares two columns.
ScanWidth == CentreWidth + 1

\* The rows with a blob of one or two columns, and the empty row.
ScanRows == {row \in BlobRows(ScanWidth) : SumSeq(row) <= 2}

\* Stacks of four or five frames alternating between a row and its mirror image.
ScanStacks ==
    {[i \in 1..F |-> IF i % 2 = 1 THEN <<ref>>
                     ELSE <<MirrorRow(ref, ScanWidth - 1 + 2 * D)>>] :
        ref \in ScanRows, D \in (-MaxShift)..MaxShift, F \in 4..5}

InitScan ==
    \E c \in Classes : \E stack \in ScanStacks :
        InitObj(c, stack, 1, ScanWidth)

NextScan ==
    \/ \E e \in 1..2, p \in 0..MaxP0 : auto_set_angles(e, p)
    \/ \E cor \in (-1)..1 : set_centre(cor)
    \/ \E half_win \in 1..2 : auto_centre(2 * half_win, 1)
    \/ reconstruct(<<1, 1>>, FALSE, FALSE, MaxKernel, FALSE, FALSE)
    \/ \E pre_filter \in BOOLEAN, kernel \in 2..MaxKernel :
          /\ pre_filter \/ kernel = MaxKernel
          /\ tomo_reconstruct(<<1, 1>>, pre_filter, kernel)

SpecScan == InitScan /\ [][NextScan]_vars

(***************************************************************************)
(* Properties of the slice loop, the centre columns and the calibration.   *)
(***************************************************************************)
\* The last call was a reconstruct that handed at least one frame to the
\* slice loop and did not end in an error of the filter or the transform.
ReachedSliceLoop ==
    /\ op = "reconstruct"
    /\ images # None
    /\ images.frames # <<>>
    /\ outcome # "ValueError"

\* C13: a reconstruct that reaches the slice loop writes the slots
\* 0 .. recon_height - 1 in increasing order, each once, recon_height being
\* the height of the preprocessed frames and slot j coming from their row j,
\* and returns with every slot written.
C13_SlotsInOrder ==
    ReachedSliceLoop =>
        /\ outcome = "ok"
        /\ slots = [k \in 1..Len(images.frames[1]) |-> [slot |-> k - 1, row |-> k - 1]]

\* The last call was a reconstruct that passed frames on without local mean,
\* crop or median filter.
PassedFrames ==
    /\ op = "reconstruct"
    /\ images # None
    /\ images.frames # <<>>
    /\ images.den = 1
    /\ IF cls = "load_scan" THEN ~args.median_filter /\ ~args.crop
       ELSE ~args.pre_filter

\* Every frame passed on is the frame of the stack it was taken from (frames
\* p0, p0 + 1, ...) without its first left and last right columns.
FramesDrop(left, right) ==
    \A i \in 1..Len(images.frames) : \A y \in 1..height :
        images.frames[i][y] = SubSeq(im_stack[p0 + i][y], left + 1, width - right)

\* C14 (as stated): in both classes the frames passed on have width
\* width - |cor_offset|: a cor_offset >= 0 drops the first cor_offset
\* columns, a cor_offset < 0 the last |cor_offset| columns.
C14_DropsBySign ==
    (PassedFrames /\ Abs(cor_offset) <= width) =>
        IF cor_offset >= 0 THEN FramesDrop(cor_offset, 0)
        ELSE FramesDrop(0, -cor_offset)

\* C14 (amended): that holds for load_scan; tomo_scan does the opposite: a
\* cor_offset <= 0 drops the first |cor_offset| columns and a cor_offset > 0
\* the last cor_offset columns (for |cor_offset| up to the frame width).
C14_DropsByClassAndSign ==
    (PassedFrames /\ Abs(cor_offset) <= width) =>
        IF (cls = "load_scan") = (cor_offset >= 0)
        THEN FramesDrop(Abs(cor_offset), 0)
        ELSE FramesDrop(0, Abs(cor_offset))

\* tomo_scan passed frames on whose last columns were dropped for a positive
\* cor_offset, frames that differ from the ones without their first columns.
C14_Witness ==
    /\ PassedFrames
    /\ cls = "tomo_scan"
    /\ cor_offset > 0
    /\ cor_offset < width
    /\ FramesDrop(0, cor_offset)
    /\ ~FramesDrop(cor_offset, 0)

\* The calibration a successful auto_set_angles leaves behind.
AutoAnglesOk == op = "auto_set_angles" /\ outcome = "ok"

\* C15: after a successful auto_set_angles on F frames num_images >= 2,
\* p0 + num_images <= F and there are num_images angles; an auto_centre
\* that follows reads an existing frame, and a non-averaged reconstruct
\* that follows passes on exactly num_images views.
C15_AutoAnglesInRange ==
    /\ [](AutoAnglesOk =>
            /\ Val(num_images) >= 2
            /\ p0 + Val(num_images) <= Len(im_stack)
            /\ Len(Val(angles)) = Val(num_images))
    /\ [][AutoAnglesOk =>
            /\ op' = "auto_centre" => outcome' # "IndexError"
            /\ (op' = "reconstruct" /\ images' # None)
                   => Len(images'.frames) = Val(num_images)]_vars

\* A successful auto_set_angles with a reference frame other than the first,
\* on a stack with a frame to spare.
C15_Witness ==
    /\ AutoAnglesOk
    /\ p0 >= 1
    /\ p0 + Val(num_images) < Len(im_stack)

====
